---- MODULE Spec2Model ----
(***************************************************************************)
(* L9Bot (bot.py): the respawn scheduling engine.                          *)
(*                                                                         *)
(* Time is counted in whole minutes.  A datetime is an integer number of   *)
(* minutes; the process starts at StartTime, and kill instants entered for *)
(* "today" may lie before it.                                              *)
(*                                                                         *)
(* The asyncio event loop runs one callback at a time, so every piece of   *)
(* code between two awaits is one atomic action.  The wall clock advances  *)
(* between callbacks (Tick); asyncio.sleep(w) makes its task runnable once *)
(* at least w has elapsed, and the task may then run arbitrarily late.     *)
(*                                                                         *)
(* One active channel is resolved by get_active_channel_objs, so each      *)
(* "for ch in ..." loop sends once and suspends once on that send.         *)
(*                                                                         *)
(* Spec and FairSpec are the program in an environment that does not fail, *)
(* with one boss that users arm.  WriteSpec adds a file system whose       *)
(* writes can raise.  CrashSpec adds a process that is killed and started  *)
(* again, and a file with text the program cannot parse.  PairSpec has two *)
(* bosses that users arm, and a channel whose send can raise.  BootSpec    *)
(* begins before the process is started, with or without a file.  LeadSpec *)
(* has users change the pre-alert lead while tasks wait.                   *)
(***************************************************************************)
EXTENDS Integers, Sequences, FiniteSets, TLC

(* ------------------------------ bounds -------------------------------- *)
\* The process starts at StartTime; the clock and every respawn instant stay
\* in StartTime..(StartTime + MaxTime).
StartTime == 59
MaxTime == 2
\* At most MaxTasks announce_boss tasks are ever created.
MaxTasks == 2
\* setprealert is called with 0..MaxPre minutes.
MaxPre == 1
\* The process is killed at most MaxCrashes times.
MaxCrashes == 1

(* --------------------------- program constants ------------------------ *)
DEFAULT_PRE_ALERT_MINUTES == 10
MinutesPerHour == 60

Hours(h) == h * MinutesPerHour

(* ------------------------------ registry ------------------------------ *)
\* bosses.json: two bosses with a respawn interval (hours), one with a fixed
\* schedule only.
BOSSES ==
    [venatus   |-> [interval |-> 10, schedule |-> <<>>],
     livera    |-> [interval |-> 10, schedule |-> <<>>],
     clemantis |-> [interval |-> 0,  schedule |-> <<"Monday 11:30">>]]

BossKeys == DOMAIN BOSSES

\* The spelling of each key, for find_boss's substring match.
Spelling ==
    [venatus   |-> <<"v", "e", "n">>,
     livera    |-> <<"l", "i", "v">>,
     clemantis |-> <<"c", "l", "e">>]

None == "None"

\* str.lower() on one character.
LowerChar(c) == IF c = "V" THEN "v" ELSE IF c = "E" THEN "e" ELSE c

RECURSIVE StripLeft(_)
StripLeft(s) == IF s # <<>> /\ Head(s) = " " THEN StripLeft(Tail(s)) ELSE s

RECURSIVE StripRight(_)
StripRight(s) ==
    IF s # <<>> /\ s[Len(s)] = " " THEN StripRight(SubSeq(s, 1, Len(s) - 1)) ELSE s

\* query.strip().lower()
Normalize(query) ==
    LET s == StripRight(StripLeft(query))
    IN  [i \in 1..Len(s) |-> LowerChar(s[i])]

\* q in b  (Python substring test)
IsSubstring(q, b) ==
    \E k \in 0..(Len(b) - Len(q)) : SubSeq(b, k + 1, k + Len(q)) = q

\* find_boss with "the first match" for "the only match".
find_boss_FirstMatch(query) ==
    IF query = <<>> THEN None
    ELSE LET q == Normalize(query)
             exact == {b \in BossKeys : Spelling[b] = q}
             matches == {b \in BossKeys : IsSubstring(q, Spelling[b])}
         IN  IF exact # {} THEN CHOOSE b \in exact : TRUE
             ELSE IF matches # {} THEN CHOOSE b \in matches : TRUE
             ELSE None

find_boss(query) ==
    IF query = <<>> THEN None
    ELSE LET q == Normalize(query)
             exact == {b \in BossKeys : Spelling[b] = q}
             matches == {b \in BossKeys : IsSubstring(q, Spelling[b])}
         IN  IF exact # {} THEN CHOOSE b \in exact : TRUE
             ELSE IF Cardinality(matches) = 1 THEN CHOOSE b \in matches : TRUE
             ELSE None

\* The names a command is called with.
Queries ==
    { <<"v", "e", "n">>,          \* exact key
      <<"V", "E", " ">>,          \* partial, upper case, trailing blank
      <<"c", "l", "e">>,          \* the fixed-schedule boss
      <<"e">>,                    \* in two keys: no unique match
      <<"x">> }                   \* in no key

\* The names a command is called with where two bosses are armed.
PairQueries == { <<"v", "e", "n">>, <<"l", "i", "v">> }

(* ------------------------------- store -------------------------------- *)
\* datetime.isoformat(): the date-time fields are written out separately.
isoformat_HoursOnly(dt) == <<dt \div MinutesPerHour, 0>>
isoformat(dt) == <<dt \div MinutesPerHour, dt % MinutesPerHour>>

\* A text that datetime.fromisoformat() raises on.
Unparsable == <<>>

Parsable(iso) == Len(iso) = 2

\* datetime.fromisoformat() followed by astimezone(UTC).
fromisoformat(iso) == iso[1] * MinutesPerHour + iso[2]

\* respawns.json: the entries of its JSON object, whether the text is a
\* whole JSON document, and whether the file exists.
File(entries) == [entries |-> entries, complete |-> TRUE, exists |-> TRUE]

\* What open(DATA_FILE, "w") followed by a part of json.dump's output leaves:
\* a text json.load raises on.
Truncated ==
    [entries |-> [b \in {} |-> Unparsable], complete |-> FALSE, exists |-> TRUE]

\* A file of zero bytes: what open(DATA_FILE, "w") alone leaves, or an empty
\* file put there by hand.  json.load raises on it as on any unfinished text.
EmptyFile == Truncated

\* No respawns.json: os.path.exists(DATA_FILE) is False.
Missing ==
    [entries |-> [b \in {} |-> Unparsable], complete |-> FALSE, exists |-> FALSE]

\* What save_respawn_data writes for the map m.
Dump(m) == File([b \in DOMAIN m |-> isoformat(m[b])])

\* Load with "stop at the first entry that does not parse" for "skip it".
Load_StopAtBroken(f) ==
    IF \A b \in DOMAIN f.entries : Parsable(f.entries[b])
    THEN [b \in DOMAIN f.entries |-> fromisoformat(f.entries[b])]
    ELSE [b \in {} |-> 0]

\* What load_respawn_data reads into an empty map from the file f, when
\* json.load returns: an entry that does not parse is skipped.
Load(f) ==
    [b \in {x \in DOMAIN f.entries : Parsable(f.entries[x])} |->
        fromisoformat(f.entries[b])]

\* del m[b]
Del(m, b) == [x \in (DOMAIN m) \ {b} |-> m[x]]

\* m[b] = v
Put(m, b, v) == [x \in (DOMAIN m) \cup {b} |-> IF x = b THEN v ELSE m[x]]

Instants == StartTime..(StartTime + MaxTime)

VARIABLES
    now,                \* the wall clock, datetime.utcnow()
    respawn_schedule,   \* the in-memory map boss -> respawn instant
    disk,               \* respawns.json
    PRE_ALERT_MINUTES,  \* the global set by setprealert
    tasks,              \* every announce_boss task created so far, in order
    sent,               \* every message the channel has delivered, in order
    ready,              \* history: whether on_ready has run, and the bosses
                        \* whose expired record a run of it has removed
    life,               \* the process: how often it was killed, whether it runs
    reply,              \* what the step taken last gave its caller
    writes              \* how often the step taken last wrote the file

vars == <<now, respawn_schedule, disk, PRE_ALERT_MINUTES, tasks, sent, ready,
          life, reply, writes>>

(* ------------------------------ helpers ------------------------------- *)
\* The file system at one run of a handler: no write fails, or the write
\* number "at" raises, in open() (the file is as before) or in json.dump
\* (the file is truncated).
NoFault == [at |-> 0, how |-> "none"]

WriteFaults(n) == {[at |-> k, how |-> h] : k \in 1..n, h \in {"open", "dump"}}

\* The state a handler works on: the map, the file, the task list, the
\* number of writes made, and whether an exception is on its way out (ex),
\* after which no statement of the handler runs.
Work(fault) ==
    [rs |-> respawn_schedule, dk |-> disk, ts |-> tasks,
     w |-> 0, fault |-> fault, ex |-> FALSE]

\* save_respawn_data(): the whole map is written over the file.
save_respawn_data(st) ==
    IF st.ex THEN st
    ELSE IF st.w + 1 = st.fault.at
         THEN [st EXCEPT !.w = @ + 1, !.ex = TRUE,
                         !.dk = IF st.fault.how = "open" THEN @ ELSE Truncated]
         ELSE [st EXCEPT !.w = @ + 1, !.dk = Dump(st.rs)]

\* respawn_schedule[boss] = respawn_utc
SetRecord(st, boss, respawn_utc) ==
    IF st.ex THEN st ELSE [st EXCEPT !.rs = Put(@, boss, respawn_utc)]

\* asyncio.create_task(announce_boss(boss, respawn_utc)): the coroutine has
\* not run yet.  The code reads boss, respawn_utc and alert_time (kept only
\* while the task sleeps until it, the one place it is read); the other
\* fields record history: by is who created the task ("set" for a command,
\* "resume" for on_ready), timely is whether no earlier task of the same boss
\* had reached its instant when this one was created, and near is whether
\* respawn_utc was less than PRE_ALERT_MINUTES away at the first run, lost is
\* the stages whose send raised, and born is how often the process had been
\* killed before the one that created the task started.
NewTask(ts, boss, respawn_utc, by) ==
    [boss |-> boss, respawn_utc |-> respawn_utc, pc |-> "created",
     alert_time |-> 0, by |-> by,
     timely |-> \A i \in 1..Len(ts) :
                   ts[i].boss = boss => now < ts[i].respawn_utc,
     near |-> FALSE, lost |-> {}, born |-> life.crashes]

\* create_task with the exception of the write before it swallowed.
create_task_Always(st, boss, respawn_utc, by) ==
    [st EXCEPT !.ts = Append(@, NewTask(st.ts, boss, respawn_utc, by))]

\* asyncio.create_task(announce_boss(boss, respawn_utc))

create_task(st, boss, respawn_utc, by) ==
    IF st.ex THEN st
    ELSE [st EXCEPT !.ts = Append(@, NewTask(st.ts, boss, respawn_utc, by))]

schedule_boss(st, boss, respawn_utc, by) ==
    create_task(save_respawn_data(SetRecord(st, boss, respawn_utc)),
                boss, respawn_utc, by)

\* respawn_schedule[boss_key] = respawn_utc; save_respawn_data();
\* schedule_boss(boss_key, respawn_utc)      (the tail of up, dead, deadat)
StoreAndSchedule(st, boss, respawn_utc) ==
    schedule_boss(save_respawn_data(SetRecord(st, boss, respawn_utc)),
                  boss, respawn_utc, "set")

\* del respawn_schedule[boss]; save_respawn_data()
DeleteAndSave(st, boss) ==
    IF st.ex THEN st ELSE save_respawn_data([st EXCEPT !.rs = Del(@, boss)])

\* The handler ends in st: the map, the file, the tasks and the number of
\* writes are as it leaves them.  The write that was to raise has raised.
Commit(st) ==
    /\ st.fault = NoFault \/ st.ex
    /\ respawn_schedule' = st.rs
    /\ disk' = st.dk
    /\ tasks' = st.ts
    /\ writes' = st.w

\* The process runs.
Running == life.up

\* What ctx.send gives the caller: the kind of text, and the rows of a list.
Reply(kind) == [kind |-> kind, rows |-> <<>>]

\* The step taken was no command: nobody is replied to.
NoReply == Reply("none")

\* An exception left the handler before its ctx.send: the caller gets the
\* exception (discord.py hands it to on_command_error, which bot.py leaves
\* at the library's default) and no text.
Raised == Reply("raised")

\* What the handler that ends in state st gives back: the text, or the
\* exception.
Outcome(st, text) == IF st.ex THEN Raised ELSE text

\* A time argument of a command: absent, unparsable, or a UTC instant.
TimeArgs(ts) ==
    {[kind |-> "absent", t |-> 0], [kind |-> "invalid", t |-> 0]}
        \cup {[kind |-> "valid", t |-> t] : t \in ts}

\* parse_time_to_utc: the UTC instant of a time text, [ok |-> FALSE] for None.
parse_time_to_utc(arg) ==
    IF arg.kind = "valid" THEN [ok |-> TRUE, t |-> arg.t] ELSE [ok |-> FALSE, t |-> 0]

IsFixed_Never(boss) == FALSE
IsFixed(boss) == BOSSES[boss].schedule # <<>>

\* The bosses that have a respawn interval.
IntervalBosses == {b \in BossKeys : BOSSES[b].interval # 0}

\* The kill instants a command is called with: those whose respawn, one
\* interval later, lies in Instants.  (A kill "now" respawns after them.)
KillInstants ==
    UNION {{t - Hours(BOSSES[b].interval) : t \in Instants} : b \in IntervalBosses}

(* ------------------------------ commands ------------------------------ *)
\* The command replies text and returns: nothing is changed or written.
Reject(fault, text) == Commit(Work(fault)) /\ reply' = text

\* !dead <boss> [time]
dead(query, arg, fault) ==
    LET boss_key == find_boss(query)
        killed_utc == IF arg.kind = "absent" THEN [ok |-> TRUE, t |-> now]
                      ELSE parse_time_to_utc(arg)
    IN  /\ Running
        /\ Len(tasks) < MaxTasks
        /\ IF boss_key = None THEN Reject(fault, Reply("unknown"))
           ELSE IF IsFixed(boss_key) THEN Reject(fault, Reply("fixed"))
           ELSE IF ~killed_utc.ok THEN Reject(fault, Reply("invalid"))
           ELSE IF BOSSES[boss_key].interval = 0
                THEN Reject(fault, Reply("fixed"))
           ELSE LET respawn_utc == killed_utc.t + Hours(BOSSES[boss_key].interval)
                    st == StoreAndSchedule(Work(fault), boss_key, respawn_utc)
                IN  /\ respawn_utc \in Instants
                    /\ Commit(st)
                    /\ reply' = Outcome(st, Reply("ok"))
        /\ UNCHANGED <<now, PRE_ALERT_MINUTES, sent, ready, life>>

\* !deadat with one "time - boss" line
deadat(query, arg, fault) ==
    LET boss_key == find_boss(query)
        killed_utc == parse_time_to_utc(arg)
    IN  /\ Running
        /\ Len(tasks) < MaxTasks
        /\ arg.kind # "absent"
        /\ IF boss_key = None THEN Reject(fault, Reply("unknown"))
           ELSE IF IsFixed(boss_key) THEN Reject(fault, Reply("fixed"))
           ELSE IF ~killed_utc.ok THEN Reject(fault, Reply("invalid"))
           ELSE IF BOSSES[boss_key].interval = 0
                THEN Reject(fault, Reply("fixed"))
           ELSE LET respawn_utc == killed_utc.t + Hours(BOSSES[boss_key].interval)
                    st == StoreAndSchedule(Work(fault), boss_key, respawn_utc)
                IN  /\ respawn_utc \in Instants
                    /\ Commit(st)
                    /\ reply' = Outcome(st, Reply("ok"))
        /\ UNCHANGED <<now, PRE_ALERT_MINUTES, sent, ready, life>>

\* !up with a date header and one "time - boss" line
up(query, arg, fault) ==
    LET boss_key == find_boss(query)
        respawn_utc == parse_time_to_utc(arg)
    IN  /\ Running
        /\ Len(tasks) < MaxTasks
        /\ arg.kind # "absent"
        /\ IF boss_key = None THEN Reject(fault, Reply("unknown"))
           ELSE IF ~respawn_utc.ok THEN Reject(fault, Reply("invalid"))
           ELSE IF IsFixed(boss_key) THEN Reject(fault, Reply("fixed"))
           ELSE LET st == StoreAndSchedule(Work(fault), boss_key, respawn_utc.t)
                IN  /\ Commit(st)
                    /\ reply' = Outcome(st, Reply("ok"))
        /\ UNCHANGED <<now, PRE_ALERT_MINUTES, sent, ready, life>>

\* !setprealert <minutes>
setprealert(minutes) ==
    /\ Running
    /\ PRE_ALERT_MINUTES' = IF minutes < 1 THEN PRE_ALERT_MINUTES ELSE minutes
    /\ reply' = IF minutes < 1 THEN Reply("rejected") ELSE Reply("set")
    /\ writes' = 0
    /\ UNCHANGED <<now, respawn_schedule, disk, tasks, sent, ready, life>>

(* ------------------------- announce_boss(i) --------------------------- *)
\* Msg with the two message texts exchanged.
Msg_Swapped(i, stage) ==
    [boss |-> tasks[i].boss,
     stage |-> IF stage = "pre-alert" THEN "respawned" ELSE "pre-alert",
     task |-> i,
     early |-> now < tasks[i].respawn_utc,
     minutes |-> IF stage = "pre-alert" THEN PRE_ALERT_MINUTES ELSE 0,
     left |-> IF stage = "pre-alert" THEN tasks[i].respawn_utc - now ELSE 0,
     late |-> stage = "pre-alert" /\ now > tasks[i].alert_time]

\* What the channel receives: which boss, which of the two messages, and the
\* minutes the pre-alert text names (PRE_ALERT_MINUTES as read at the send).
\* The other fields record history: task, early (sent before respawn_utc),
\* and for a pre-alert left (the minutes from the send to respawn_utc) and
\* late (sent after the alert_time the task slept until).
Msg(i, stage) ==
    [boss |-> tasks[i].boss, stage |-> stage, task |-> i,
     early |-> now < tasks[i].respawn_utc,
     minutes |-> IF stage = "pre-alert" THEN PRE_ALERT_MINUTES ELSE 0,
     left |-> IF stage = "pre-alert" THEN tasks[i].respawn_utc - now ELSE 0,
     late |-> stage = "pre-alert" /\ now > tasks[i].alert_time]

\* Send with an exception of ch.send left uncaught: the task ends there.
Send_Uncaught(ts, i, stage, pc, delivered) ==
    IF delivered
    THEN /\ tasks' = [ts EXCEPT ![i].pc = pc]
         /\ sent' = Append(sent, Msg(i, stage))
    ELSE /\ tasks' = [ts EXCEPT ![i].pc = "failed", ![i].lost = @ \cup {stage}]
         /\ sent' = sent

\* try: await ch.send(...) except Exception: print(...).  The channel
\* delivers the message, or ch.send raises and the task goes on all the same.
Send(ts, i, stage, pc, delivered) ==
    IF delivered
    THEN /\ tasks' = [ts EXCEPT ![i].pc = pc]
         /\ sent' = Append(sent, Msg(i, stage))
    ELSE /\ tasks' = [ts EXCEPT ![i].pc = pc, ![i].lost = @ \cup {stage}]
         /\ sent' = sent

\* "# final alert": read the clock; sleep until respawn_utc if it is ahead,
\* else send the respawned message at once and suspend on the send.
FinalAlert(i, ts, delivered) ==
    IF tasks[i].respawn_utc - now > 0
    THEN /\ tasks' = [ts EXCEPT ![i].pc = "sleep_final"]
         /\ sent' = sent
    ELSE Send(ts, i, "respawned", "send_final", delivered)

\* PreAlertWait without the pre-alert lead: the wait until respawn_utc itself.
PreAlertWait_NoLead(respawn_utc) == respawn_utc - now

\* The wait computed for the pre-alert sleep.
PreAlertWait(respawn_utc) == (respawn_utc - PRE_ALERT_MINUTES) - now

\* A step of a task: nobody is replied to, the file is not written.
TaskStep ==
    /\ reply' = NoReply
    /\ writes' = 0
    /\ UNCHANGED <<now, respawn_schedule, disk, PRE_ALERT_MINUTES, ready, life>>

\* First run of the coroutine: up to the first await.  create_task queued it
\* with call_soon, and the loop runs its queue in order: tasks start in the
\* order they were created.
AnnounceStart(i, delivered) ==
    /\ Running
    /\ tasks[i].pc = "created"
    /\ \A j \in 1..(i - 1) : tasks[j].pc # "created"
    /\ LET alert_time == tasks[i].respawn_utc - PRE_ALERT_MINUTES
           ts == [tasks EXCEPT
                     ![i].near = tasks[i].respawn_utc - now < PRE_ALERT_MINUTES]
       IN  IF PreAlertWait(tasks[i].respawn_utc) > 0
           THEN /\ tasks' = [ts EXCEPT ![i].pc = "sleep_prealert",
                                       ![i].alert_time = alert_time]
                /\ sent' = sent
           ELSE FinalAlert(i, ts, delivered)
    /\ TaskStep

\* asyncio.sleep(wait) is over: send the pre-alert and suspend on the send.
WakePreAlert(i, delivered) ==
    /\ Running
    /\ tasks[i].pc = "sleep_prealert"
    /\ now >= tasks[i].alert_time
    /\ Send([tasks EXCEPT ![i].alert_time = 0], i, "pre-alert", "send_prealert",
            delivered)
    /\ TaskStep

\* The pre-alert send returned (or raised, and the exception was printed).
AfterPreAlert(i, delivered) ==
    /\ Running
    /\ tasks[i].pc = "send_prealert"
    /\ FinalAlert(i, tasks, delivered)
    /\ TaskStep

\* The second asyncio.sleep(wait) is over: send the respawned message.
WakeFinal(i, delivered) ==
    /\ Running
    /\ tasks[i].pc = "sleep_final"
    /\ now >= tasks[i].respawn_utc
    /\ Send(tasks, i, "respawned", "send_final", delivered)
    /\ TaskStep

\* CleanupDeletes with the membership test inverted.
CleanupDeletes_Inverted(i) == tasks[i].boss \notin DOMAIN respawn_schedule

\* "# cleanup saved schedule": the record is deleted when the map has one.
CleanupDeletes(i) == tasks[i].boss \in DOMAIN respawn_schedule

\* The final send returned (or raised, and the exception was printed): clean
\* up and finish.  A write that raises ends the task with that exception.
Cleanup(i, fault) ==
    /\ Running
    /\ tasks[i].pc = "send_final"
    /\ LET st == IF CleanupDeletes(i) THEN DeleteAndSave(Work(fault), tasks[i].boss)
                 ELSE Work(fault)
       IN  Commit([st EXCEPT !.ts[i].pc = IF st.ex THEN "failed" ELSE "done"])
    /\ reply' = NoReply
    /\ UNCHANGED <<now, PRE_ALERT_MINUTES, sent, ready, life>>

(* ------------------------------- events ------------------------------- *)
\* The registry keys in file order.
BossOrder == <<"venatus", "livera", "clemantis">>

\* list(m.items()): the records of the map in the order the dict keeps them,
\* which is the order they were first inserted in.  The model does not keep
\* that order: every order is possible.
Items(m) ==
    {[k \in 1..Cardinality(DOMAIN m) |-> <<order[k], m[order[k]]>>] :
        order \in {o \in [1..Cardinality(DOMAIN m) -> DOMAIN m] :
                      \A j, k \in DOMAIN o : j # k => o[j] # o[k]}}

\* ResumeOne with "dt >= now" for "dt > now".
ResumeOne_Inclusive(st, boss, dt) ==
    IF dt >= now THEN schedule_boss(st, boss, dt, "resume")
    ELSE DeleteAndSave(st, boss)

\* One pass of on_ready's loop body for the record (boss, dt).
ResumeOne(st, boss, dt) ==
    IF dt > now THEN schedule_boss(st, boss, dt, "resume")
    ELSE DeleteAndSave(st, boss)

RECURSIVE ResumeFrom(_, _, _)
ResumeFrom(st, items, k) ==
    IF k > Len(items) THEN st
    ELSE ResumeFrom(ResumeOne(st, items[k][1], items[k][2]), items, k + 1)

\* on_ready: "Resume tasks for saved respawns (future only)".
on_ready(items, fault) ==
    LET st == ResumeFrom(Work(fault), items, 1)
    IN  /\ Running
        /\ Len(tasks) + Cardinality({b \in DOMAIN respawn_schedule :
                                        respawn_schedule[b] > now}) <= MaxTasks
        /\ Commit(st)
        /\ ready' = [ran |-> TRUE,
                     purged |-> ready.purged \cup
                         {b \in (DOMAIN respawn_schedule) \ DOMAIN st.rs :
                             ~(respawn_schedule[b] > now)}]
        /\ reply' = Outcome(st, NoReply)
        /\ UNCHANGED <<now, PRE_ALERT_MINUTES, sent, life>>

\* One pass of boss_list's first loop: an expired record is removed.
PurgeOne(st, boss) ==
    IF boss \in DOMAIN st.rs /\ ~(st.rs[boss] > now) THEN DeleteAndSave(st, boss) ELSE st

RECURSIVE PurgeFrom(_, _)
PurgeFrom(st, k) ==
    IF k > Len(BossOrder) THEN st
    ELSE PurgeFrom(PurgeOne(st, BossOrder[k]), k + 1)

\* with_timers as boss_list's first loop builds it: the bosses, in registry
\* order, whose record is in the future, each with its instant.
RECURSIVE WithTimers(_, _)
WithTimers(rs, k) ==
    IF k > Len(BossOrder) THEN <<>>
    ELSE LET boss == BossOrder[k]
         IN  IF boss \in DOMAIN rs /\ rs[boss] > now
             THEN <<(<<boss, rs[boss]>>)>> \o WithTimers(rs, k + 1)
             ELSE WithTimers(rs, k + 1)

\* Where list.sort puts one more row in a sorted list: behind every row
\* whose key is not greater (the sort is stable).
RECURSIVE Insert(_, _)
Insert(row, rows) ==
    IF rows = <<>> THEN <<row>>
    ELSE IF row[2] < Head(rows)[2] THEN <<row>> \o rows
    ELSE <<Head(rows)>> \o Insert(row, Tail(rows))

\* SortByTime with the sort left out.
SortByTime_Unsorted(rows) == rows

\* with_timers.sort(key=lambda x: x[1])
RECURSIVE SortByTime(_)
SortByTime(rows) ==
    IF rows = <<>> THEN <<>>
    ELSE Insert(rows[Len(rows)], SortByTime(SubSeq(rows, 1, Len(rows) - 1)))

\* !boss
boss_list(fault) ==
    LET st == PurgeFrom(Work(fault), 1)
        with_timers == SortByTime(WithTimers(respawn_schedule, 1))
    IN  /\ Running
        /\ Commit(st)
        /\ reply' = Outcome(st, [kind |-> "list", rows |-> with_timers])
        /\ UNCHANGED <<now, PRE_ALERT_MINUTES, sent, ready, life>>

\* The wall clock advances.  A task that create_task has just queued runs
\* within the same pass of the loop, before the clock shows another minute.
Tick ==
    /\ now < StartTime + MaxTime
    /\ \A i \in 1..Len(tasks) : tasks[i].pc # "created"
    /\ now' = now + 1
    /\ reply' = NoReply
    /\ writes' = 0
    /\ UNCHANGED <<respawn_schedule, disk, PRE_ALERT_MINUTES, tasks, sent, ready, life>>

\* The process is killed: its memory and its tasks are gone, the file stays.
\* A process killed inside save_respawn_data, after open(DATA_FILE, "w") and
\* before json.dump has written everything, leaves the file truncated.
Crash(in_write) ==
    /\ Running
    /\ life.crashes < MaxCrashes
    /\ life' = [crashes |-> life.crashes + 1, up |-> FALSE]
    /\ disk' = IF in_write THEN Truncated ELSE disk
    /\ respawn_schedule' = [b \in {} |-> 0]
    /\ PRE_ALERT_MINUTES' = DEFAULT_PRE_ALERT_MINUTES
    /\ tasks' = [i \in 1..Len(tasks) |->
                    IF tasks[i].pc \in {"done", "failed"} THEN tasks[i]
                    ELSE [tasks[i] EXCEPT !.pc = "killed", !.alert_time = 0]]
    /\ ready' = [ready EXCEPT !.ran = FALSE]
    /\ reply' = NoReply
    /\ writes' = 0
    /\ UNCHANGED <<now, sent>>

\* load_respawn_data returns on the file f: there is no file (the map is
\* left as it is), or json.load returns.
Loads(f) == ~f.exists \/ f.complete

\* The process is started (again): load_respawn_data() at module load.
\* Without a file it returns at once and the map stays empty.  On a file
\* that is no JSON document json.load raises, nothing catches it, and the
\* process ends before bot.run.
Restart ==
    /\ ~Running
    /\ IF Loads(disk)
       THEN /\ respawn_schedule' = IF disk.exists THEN Load(disk)
                                   ELSE [b \in {} |-> 0]
            /\ life' = [life EXCEPT !.up = TRUE]
       ELSE UNCHANGED <<respawn_schedule, life>>
    /\ reply' = IF Loads(disk) THEN NoReply ELSE Raised
    /\ writes' = 0
    /\ UNCHANGED <<now, disk, PRE_ALERT_MINUTES, tasks, sent, ready>>

(* --------------------------- specification ---------------------------- *)
\* The maps with records of the given bosses.
SavedMaps(bosses) == UNION {[D -> Instants] : D \in SUBSET bosses}

\* The files respawns.json can hold when the process starts: what a process
\* that ran before has saved, with a record of one boss at most.
StoredFiles == {Dump(m) : m \in SavedMaps({"venatus"})}

\* The same with records of every boss that has an interval.
PairFiles == {Dump(m) : m \in SavedMaps(IntervalBosses)}

\* The file f with the text of the entries in broken made unparsable.
Damage(f, broken) ==
    File([b \in DOMAIN f.entries |->
             IF b \in broken THEN Unparsable ELSE f.entries[b]])

\* A stored file some of whose entries have been edited into something that
\* is no ISO date.
DamagedFiles ==
    UNION {{Damage(f, broken) : broken \in SUBSET DOMAIN f.entries} : f \in PairFiles}

\* Module load, on the file f: load_respawn_data() fills the map from it.
Start(f) ==
    /\ now = StartTime
    /\ disk = f
    /\ respawn_schedule = Load(disk)
    /\ PRE_ALERT_MINUTES = DEFAULT_PRE_ALERT_MINUTES
    /\ tasks = <<>>
    /\ sent = <<>>
    /\ ready = [ran |-> FALSE, purged |-> {}]
    /\ life = [crashes |-> 0, up |-> TRUE]
    /\ reply = NoReply
    /\ writes = 0

Init == \E f \in StoredFiles : Start(f)

\* One step of task i: the code between two of its awaits.
announce_boss(i) ==
    /\ i \in 1..Len(tasks)
    /\ \/ AnnounceStart(i, TRUE)
       \/ WakePreAlert(i, TRUE)
       \/ AfterPreAlert(i, TRUE)
       \/ WakeFinal(i, TRUE)
       \/ Cleanup(i, NoFault)

\* The program where no write and no send raises and the process lives on.
Next ==
    \/ \E q \in Queries, a \in TimeArgs(KillInstants) : dead(q, a, NoFault)
    \/ \E q \in Queries, a \in TimeArgs(KillInstants) : deadat(q, a, NoFault)
    \/ \E q \in Queries, a \in TimeArgs(Instants) : up(q, a, NoFault)
    \/ \E m \in 0..MaxPre : setprealert(m)
    \/ \E items \in Items(respawn_schedule) : on_ready(items, NoFault)
    \/ boss_list(NoFault)
    \/ \E i \in 1..Len(tasks) : AnnounceStart(i, TRUE)
    \/ \E i \in 1..Len(tasks) : WakePreAlert(i, TRUE)
    \/ \E i \in 1..Len(tasks) : AfterPreAlert(i, TRUE)
    \/ \E i \in 1..Len(tasks) : WakeFinal(i, TRUE)
    \/ \E i \in 1..Len(tasks) : Cleanup(i, NoFault)
    \/ Tick

Spec == Init /\ [][Next]_vars

\* Spec where the event loop runs every runnable task and the clock goes on.
FairSpec ==
    /\ Spec
    /\ WF_vars(Tick)
    /\ \A i \in 1..MaxTasks : WF_vars(announce_boss(i))

\* What the file system does to one run of a handler that writes up to n times.
Faults(n) == {NoFault} \cup WriteFaults(n)

\* The most writes one run of a handler is let fail at: a command makes two.
MaxWrites == 2

\* The program where a write can raise.  Users report kills of one boss;
\* PRE_ALERT_MINUTES stays at its default, which no instant within MaxTime
\* is ahead by.
WriteNext ==
    \/ \E t \in KillInstants, f \in Faults(MaxWrites) :
          dead(<<"v", "e", "n">>, [kind |-> "valid", t |-> t], f)
    \/ \E items \in Items(respawn_schedule), f \in Faults(MaxWrites) :
          on_ready(items, f)
    \/ \E i \in 1..Len(tasks) : AnnounceStart(i, TRUE)
    \/ \E i \in 1..Len(tasks) : WakeFinal(i, TRUE)
    \/ \E i \in 1..Len(tasks), f \in Faults(MaxWrites) : Cleanup(i, f)
    \/ Tick

WriteSpec == Init /\ [][WriteNext]_vars

CrashInit == \E f \in DamagedFiles : Start(f)

\* The program where the process can be killed and started again, on a file
\* that can hold entries that do not parse.  Users report kills of one boss;
\* PRE_ALERT_MINUTES stays at its default.
CrashNext ==
    \/ \E t \in KillInstants :
          dead(<<"v", "e", "n">>, [kind |-> "valid", t |-> t], NoFault)
    \/ \E items \in Items(respawn_schedule) : on_ready(items, NoFault)
    \/ \E i \in 1..Len(tasks) : AnnounceStart(i, TRUE)
    \/ \E i \in 1..Len(tasks) : WakeFinal(i, TRUE)
    \/ \E i \in 1..Len(tasks) : Cleanup(i, NoFault)
    \/ Tick
    \/ \E in_write \in BOOLEAN : Crash(in_write)
    \/ Restart

CrashSpec == CrashInit /\ [][CrashNext]_vars

\* One step of task i where a send can raise.
announce_boss_lossy(i) ==
    /\ i \in 1..Len(tasks)
    /\ \/ \E delivered \in BOOLEAN : AnnounceStart(i, delivered)
       \/ \E delivered \in BOOLEAN : WakePreAlert(i, delivered)
       \/ \E delivered \in BOOLEAN : AfterPreAlert(i, delivered)
       \/ \E delivered \in BOOLEAN : WakeFinal(i, delivered)
       \/ Cleanup(i, NoFault)

\* The process starts on a file without records.
PairInit == Start(Dump([b \in {} |-> 0]))

\* The program where users set respawns of both bosses that have an
\* interval and list them, and where ch.send can raise.
PairNext ==
    \/ \E q \in PairQueries, t \in Instants :
          up(q, [kind |-> "valid", t |-> t], NoFault)
    \/ \E m \in 1..MaxPre : setprealert(m)
    \/ boss_list(NoFault)
    \/ \E i \in 1..Len(tasks), delivered \in BOOLEAN : AnnounceStart(i, delivered)
    \/ \E i \in 1..Len(tasks), delivered \in BOOLEAN : WakePreAlert(i, delivered)
    \/ \E i \in 1..Len(tasks), delivered \in BOOLEAN : AfterPreAlert(i, delivered)
    \/ \E i \in 1..Len(tasks), delivered \in BOOLEAN : WakeFinal(i, delivered)
    \/ \E i \in 1..Len(tasks) : Cleanup(i, NoFault)
    \/ Tick

\* The event loop runs every runnable task and the clock does not stop.
PairSpec ==
    /\ PairInit
    /\ [][PairNext]_vars
    /\ WF_vars(Tick)
    /\ \A i \in 1..MaxTasks : WF_vars(announce_boss_lossy(i))

\* What the process can find in place of respawns.json at its first start:
\* no file, a file of zero bytes, or a stored file.
BootFiles == {Missing, EmptyFile} \cup StoredFiles

\* Before module load: nothing runs, the map is the empty dict of line 56.
BootInit ==
    /\ \E f \in BootFiles : disk = f
    /\ now = StartTime
    /\ respawn_schedule = [b \in {} |-> 0]
    /\ PRE_ALERT_MINUTES = DEFAULT_PRE_ALERT_MINUTES
    /\ tasks = <<>>
    /\ sent = <<>>
    /\ ready = [ran |-> FALSE, purged |-> {}]
    /\ life = [crashes |-> 0, up |-> FALSE]
    /\ reply = NoReply
    /\ writes = 0

\* The program from before its start, in an environment that does not fail.
BootNext ==
    \/ Restart
    \/ \E t \in KillInstants :
          dead(<<"v", "e", "n">>, [kind |-> "valid", t |-> t], NoFault)
    \/ \E items \in Items(respawn_schedule) : on_ready(items, NoFault)
    \/ \E i \in 1..Len(tasks) : AnnounceStart(i, TRUE)
    \/ \E i \in 1..Len(tasks) : WakeFinal(i, TRUE)
    \/ \E i \in 1..Len(tasks) : Cleanup(i, NoFault)
    \/ Tick

BootSpec == BootInit /\ [][BootNext]_vars

\* The pre-alert leads a user sets in the program below.
MaxLead == 2

\* The program where users change the pre-alert lead while tasks wait, in an
\* environment that does not fail.
LeadNext ==
    \/ \E m \in 1..MaxLead : setprealert(m)
    \/ \E t \in KillInstants :
          dead(<<"v", "e", "n">>, [kind |-> "valid", t |-> t], NoFault)
    \/ \E i \in 1..Len(tasks) : AnnounceStart(i, TRUE)
    \/ \E i \in 1..Len(tasks) : WakePreAlert(i, TRUE)
    \/ \E i \in 1..Len(tasks) : AfterPreAlert(i, TRUE)
    \/ \E i \in 1..Len(tasks) : WakeFinal(i, TRUE)
    \/ \E i \in 1..Len(tasks) : Cleanup(i, NoFault)
    \/ Tick

LeadSpec == PairInit /\ [][LeadNext]_vars

(* ------------------------------ properties ---------------------------- *)
TaskIds == 1..Len(tasks)

\* A pipeline that has started and has not finished.
Live(i) == tasks[i].pc \notin {"created", "done", "failed", "killed"}

\* The places in sent of the messages of one stage that task i sent.
MsgsOf(i, stage) ==
    {k \in 1..Len(sent) : sent[k].task = i /\ sent[k].stage = stage}

\* A later command has set a respawn for the boss of task i.
Superseded(i) ==
    \E j \in TaskIds : j > i /\ tasks[j].boss = tasks[i].boss /\ tasks[j].by = "set"

\* The messages this step appends to sent.
NewMsgs == {sent'[k] : k \in (Len(sent) + 1)..Len(sent')}

\* This step is the end of task i and removes its boss's record.
CleanupDeleted(i) ==
    /\ tasks[i].pc = "send_final"
    /\ tasks'[i].pc = "done"
    /\ tasks[i].boss \in DOMAIN respawn_schedule
    /\ tasks[i].boss \notin DOMAIN respawn_schedule'

\* C1: every boss has at most one live pipeline (started, not finished).
C1_AtMostOneLivePipeline ==
    \A b \in BossKeys :
        Cardinality({i \in TaskIds : tasks[i].boss = b /\ Live(i)}) <= 1

\* C2: when a boss armed with instant A is armed again by a command with
\* another instant B before A is reached, no "respawned" message is sent for A.
C2_NoRespawnedForReplacedInstant ==
    \A i \in TaskIds : \A j \in TaskIds :
        (/\ i < j
         /\ tasks[j].boss = tasks[i].boss
         /\ tasks[j].by = "set"
         /\ tasks[j].timely
         /\ tasks[j].respawn_utc # tasks[i].respawn_utc)
        => MsgsOf(i, "respawned") = {}

\* C3: once a newer command has superseded a pipeline that waits in one of
\* its two sleeps, the superseded pipeline sends no further message of either
\* stage and does not delete the record.
C3_SupersededIsSilent ==
    [][\A i \in TaskIds :
          (Superseded(i) /\ tasks[i].pc \in {"sleep_prealert", "sleep_final"}) =>
              /\ \A m \in NewMsgs : m.task # i
              /\ ~CleanupDeleted(i)]_vars

\* C4: the cleanup of a pipeline armed for instant t deletes the boss's record
\* only when the record is still t.
C4_CleanupDeletesOwnRecordOnly ==
    [][\A i \in TaskIds :
          CleanupDeleted(i) =>
              respawn_schedule[tasks[i].boss] = tasks[i].respawn_utc]_vars

\* C5: once on_ready has run, a boss has a record exactly when it has a
\* pipeline that is created or running.
C5_RecordIffPipeline ==
    ready.ran =>
        \A b \in BossKeys :
            (b \in DOMAIN respawn_schedule /\ b \in DOMAIN disk.entries)
                <=> (\E i \in TaskIds : tasks[i].boss = b /\ tasks[i].pc # "done")

\* C6: no message of an older pipeline follows in sent a message of a newer
\* pipeline that a command armed for the same boss.
C6_NoOldAfterNew ==
    \A m \in 1..Len(sent) : \A n \in 1..Len(sent) :
        (m < n /\ sent[m].boss = sent[n].boss /\ tasks[sent[m].task].by = "set")
            => sent[m].task <= sent[n].task

\* A later arming (command or on_ready) exists for the boss of task i.
Rearmed(i) == \E j \in TaskIds : j > i /\ tasks[j].boss = tasks[i].boss

\* Task i has ended, has sent "respawned" once, and its boss has no record
\* in the map or in the file.
Finished(i) ==
    /\ tasks[i].pc = "done"
    /\ Cardinality(MsgsOf(i, "respawned")) = 1
    /\ tasks[i].boss \notin DOMAIN respawn_schedule
    /\ tasks[i].boss \notin DOMAIN disk.entries

NoEarlyRespawned ==
    \A k \in 1..Len(sent) : sent[k].stage = "respawned" => ~sent[k].early

\* C7: a pipeline armed for instant t whose boss is never armed again sends
\* "respawned" eventually, never before t, and then the boss has no record.
C7_LastArmingRespawnsAndClears ==
    /\ []NoEarlyRespawned
    /\ \A i \in 1..MaxTasks :
          (i \in TaskIds) ~> (i \in TaskIds /\ (Rearmed(i) \/ Finished(i)))

C7_Witness ==
    \E i \in TaskIds :
        /\ ~Rearmed(i)
        /\ Finished(i)
        /\ MsgsOf(i, "pre-alert") # {}
        /\ tasks[i].respawn_utc > StartTime

\* C8: in sent, a pipeline's "pre-alert" comes before its "respawned".
C8_PreAlertBeforeRespawned ==
    \A i \in TaskIds :
        \A p \in MsgsOf(i, "pre-alert") : \A r \in MsgsOf(i, "respawned") : p < r

C8_Witness ==
    \E i \in TaskIds : MsgsOf(i, "pre-alert") # {} /\ MsgsOf(i, "respawned") # {}

\* C9: a run of on_ready removes every record whose instant is not in the
\* future from the map and from the file, creates no task for its boss and
\* sends nothing.
C9_ResumePurgesExpired ==
    [][(\E items \in Items(respawn_schedule) : on_ready(items, NoFault)) =>
          \A b \in DOMAIN respawn_schedule :
              ~(respawn_schedule[b] > now) =>
                  /\ b \notin DOMAIN respawn_schedule'
                  /\ b \notin DOMAIN disk'.entries
                  /\ \A j \in (Len(tasks) + 1)..Len(tasks') : tasks'[j].boss # b
                  /\ sent' = sent]_vars

C9_Witness ==
    /\ ready.purged # {}
    /\ DOMAIN respawn_schedule = {}
    /\ DOMAIN disk.entries = {}
    /\ tasks = <<>>
    /\ sent = <<>>

\* A pipeline that on_ready created and that found, on its first run, its
\* instant less than PRE_ALERT_MINUTES away.
NearResume(i) == tasks[i].by = "resume" /\ tasks[i].near

\* C10: a pipeline that on_ready created for an instant t in the future and
\* less than PRE_ALERT_MINUTES away never sends "pre-alert", and sends
\* "respawned" once, eventually and not before t.
C10_NearResumeSkipsPreAlert ==
    /\ [](\A i \in TaskIds :
            NearResume(i) =>
                /\ MsgsOf(i, "pre-alert") = {}
                /\ Cardinality(MsgsOf(i, "respawned")) <= 1
                /\ \A k \in MsgsOf(i, "respawned") : ~sent[k].early)
    /\ \A i \in 1..MaxTasks :
          (i \in TaskIds /\ NearResume(i))
              ~> (i \in TaskIds /\ MsgsOf(i, "respawned") # {})

C10_Witness ==
    \E i \in TaskIds :
        /\ NearResume(i)
        /\ tasks[i].pc = "done"
        /\ MsgsOf(i, "respawned") # {}
        /\ now >= tasks[i].respawn_utc

\* The instant of the pipeline that sent the message m.
InstantOf(m) == tasks[m.task].respawn_utc

\* Two messages are the same notification: same boss, same stage, same instant.
SameNotification(m, n) ==
    m.boss = n.boss /\ m.stage = n.stage /\ InstantOf(m) = InstantOf(n)

\* C11: once the process has been killed and started again, no message of a
\* pipeline that on_ready created in the new process repeats a notification
\* (boss, stage, instant) that was sent before, in either life of the
\* process; and once on_ready has run in the new process, every record still
\* in the future has a pipeline of the new process for its boss and instant.
C11_RestartNeitherRepeatsNorLoses ==
    life.crashes > 0 =>
        /\ \A m \in 1..Len(sent) : \A n \in 1..Len(sent) :
              (m < n /\ tasks[sent[n].task].born > 0
                     /\ tasks[sent[n].task].by = "resume")
                  => ~SameNotification(sent[m], sent[n])
        /\ (Running /\ ready.ran) =>
              \A b \in DOMAIN respawn_schedule :
                  respawn_schedule[b] > now =>
                      \E i \in TaskIds :
                          /\ tasks[i].born = life.crashes
                          /\ tasks[i].boss = b
                          /\ tasks[i].respawn_utc = respawn_schedule[b]

\* The name q resolves to the boss b: it is b's key, or it is no key and b is
\* the only key it is a part of (blanks at the ends and case set aside).
Resolves(q, b) ==
    LET n == Normalize(q)
    IN  \/ Spelling[b] = n
        \/ /\ \A c \in BossKeys : Spelling[c] # n
           /\ \A c \in BossKeys : IsSubstring(n, Spelling[c]) <=> c = b

\* The name q resolves to no boss of the registry.
NoEntity(q) == \A b \in BossKeys : ~Resolves(q, b)

\* The names a user may type that resolve to no boss.
UnknownNames == {q \in Queries : NoEntity(q)}

\* The time arguments a user may type.
AnyTimeArg == TimeArgs(KillInstants \cup Instants)

\* Nothing the timer engine keeps is changed: the map, the file, the tasks;
\* and the file is not written.
StoreUntouched ==
    /\ UNCHANGED <<respawn_schedule, disk, tasks>>
    /\ writes' = 0

\* C12: dead, deadat and up called with a name that resolves to no boss
\* reply "unknown boss", leave the map and the file as they are, and create
\* no task.
C12_UnknownEntityRejected ==
    [][\A q \in UnknownNames : \A a \in AnyTimeArg :
          (dead(q, a, NoFault) \/ deadat(q, a, NoFault) \/ up(q, a, NoFault))
              => (reply'.kind = "unknown" /\ StoreUntouched)]_vars

C12_Witness ==
    /\ reply.kind = "unknown"
    /\ DOMAIN respawn_schedule # {}
    /\ respawn_schedule = Load(disk)
    /\ \E i \in TaskIds : tasks[i].pc = "sleep_final"

\* The names a user may type that resolve to a boss with a fixed weekly
\* schedule.
FixedNames ==
    {q \in Queries : \E b \in BossKeys : Resolves(q, b) /\ BOSSES[b].schedule # <<>>}

\* C13: dead, deadat and up called for a boss with a fixed weekly schedule
\* store no record, write no file and create no task; they reply "fixed
\* schedule" whenever the call carries a kill or respawn instant (dead and
\* deadat reply so even when it does not).  No task and no record is ever
\* held for such a boss.
C13_FixedScheduleRejected ==
    /\ [](/\ \A i \in TaskIds : BOSSES[tasks[i].boss].schedule = <<>>
          /\ \A b \in DOMAIN respawn_schedule : BOSSES[b].schedule = <<>>)
    /\ [][\A q \in FixedNames : \A a \in AnyTimeArg :
            /\ (dead(q, a, NoFault) \/ deadat(q, a, NoFault))
                  => (reply'.kind = "fixed" /\ StoreUntouched)
            /\ up(q, a, NoFault)
                  => /\ StoreUntouched
                     /\ a.kind # "invalid" => reply'.kind = "fixed"]_vars

C13_Witness ==
    /\ reply.kind = "fixed"
    /\ DOMAIN respawn_schedule # {}
    /\ respawn_schedule = Load(disk)
    /\ \E i \in TaskIds : tasks[i].pc = "sleep_final"

\* The names a user may type that resolve to a boss with a respawn interval.
IntervalNames ==
    {q \in Queries : \E b \in IntervalBosses : Resolves(q, b)}

\* The boss with a respawn interval that the name q resolves to.
BossOf(q) == CHOOSE b \in IntervalBosses : Resolves(q, b)

\* C14: saving the respawn map and loading the file again gives the map back;
\* and when dead or deadat logs a kill of a boss with interval I at instant K,
\* loading the file it wrote gives that boss exactly K + I.
C14_SaveLoadRoundTrip ==
    /\ [](Load(Dump(respawn_schedule)) = respawn_schedule)
    /\ [][\A q \in IntervalNames : \A K \in KillInstants :
            LET a == [kind |-> "valid", t |-> K]
            IN  ((dead(q, a, NoFault) \/ deadat(q, a, NoFault))
                    /\ Len(tasks') > Len(tasks))
                  => /\ BossOf(q) \in DOMAIN Load(disk')
                     /\ Load(disk')[BossOf(q)]
                            = K + Hours(BOSSES[BossOf(q)].interval)]_vars

\* A kill was logged whose respawn instant has hour and minute fields that
\* are both not zero, and the file gives it back.
C14_Witness ==
    \E i \in TaskIds :
        /\ tasks[i].by = "set"
        /\ tasks[i].boss \in DOMAIN disk.entries
        /\ disk.entries[tasks[i].boss][1] > 0
        /\ disk.entries[tasks[i].boss][2] > 0
        /\ Load(disk)[tasks[i].boss] = tasks[i].respawn_utc
        /\ respawn_schedule = Load(disk)

\* The rows are in non-decreasing order of respawn instant.
NonDecreasing(rows) ==
    \A j \in 1..Len(rows) : \A k \in 1..Len(rows) :
        j < k => rows[j][2] <= rows[k][2]

\* C15: the rows boss_list replies are the records of respawn_schedule with
\* an instant after now, each once, in non-decreasing order of instant,
\* whatever the order the records were stored in.
C15_ListOrderedByInstant ==
    reply.kind = "list" =>
        /\ NonDecreasing(reply.rows)
        /\ {reply.rows[k] : k \in 1..Len(reply.rows)}
              = {<<b, respawn_schedule[b]>> : b \in DOMAIN respawn_schedule}
        /\ Len(reply.rows) = Cardinality(DOMAIN respawn_schedule)

\* A list of two bosses whose order by instant is the reverse of their order
\* in the registry.
C15_Witness ==
    /\ reply.kind = "list"
    /\ Len(reply.rows) = 2
    /\ reply.rows[1][1] = "livera"
    /\ reply.rows[2][1] = "venatus"
    /\ reply.rows[1][2] < reply.rows[2][2]

\* The file holds the record (boss, t).
Persisted(f, boss, t) ==
    /\ f.complete
    /\ boss \in DOMAIN f.entries
    /\ f.entries[boss] = isoformat(t)

\* C16: when a write of the file raises during dead, the caller gets the
\* exception and no success text, and no task is created; and whenever a
\* command creates a task, the file holds the task's boss and instant.
C16_FailedWriteArmsNothing ==
    /\ [][\A K \in KillInstants : \A f \in WriteFaults(MaxWrites) :
            dead(<<"v", "e", "n">>, [kind |-> "valid", t |-> K], f)
                => (reply' = Raised /\ tasks' = tasks)]_vars
    /\ [][\A j \in (Len(tasks) + 1)..Len(tasks') :
            tasks'[j].by = "set"
                => Persisted(disk', tasks'[j].boss, tasks'[j].respawn_utc)]_vars

\* A dead command has stored its record in the map, its write has raised, the
\* file does not hold the record, and no task exists for it.
C16_Witness ==
    /\ reply = Raised
    /\ "venatus" \in DOMAIN respawn_schedule
    /\ ~Persisted(disk, "venatus", respawn_schedule["venatus"])
    /\ \A i \in TaskIds : tasks[i].respawn_utc # respawn_schedule["venatus"]
    /\ \E i \in TaskIds : tasks[i].by = "set"

\* C17: when the process is killed, also inside a write of the file, the
\* file afterwards is a whole document that loads to the map it held before
\* the write or to the map the write was storing.
C17_WriteAllOrNothing ==
    [][(life.up /\ ~life'.up)
          => /\ disk'.complete
             /\ Load(disk') \in {Load(disk), respawn_schedule}]_vars

\* The file was written by the step just taken: once by an accepted dead,
\* deadat or up, which arm a task, and once by a step that deletes a record.
WritesOnce ==
    /\ (Len(tasks') > Len(tasks) /\ tasks'[Len(tasks')].by = "set")
          => writes' = 1
    /\ (\E b \in DOMAIN respawn_schedule :
            DOMAIN respawn_schedule' = DOMAIN respawn_schedule \ {b})
          => writes' = 1

\* C18: an accepted dead, deadat or up writes the file exactly once, and so
\* does the deletion of one record.
C18_OneWritePerMutation == [][WritesOnce]_vars

\* Task i has called ch.send for the stage: the message went out, or the
\* call raised.
Attempted(i, stage) == MsgsOf(i, stage) # {} \/ stage \in tasks[i].lost

\* The step is the cleanup of task i.
CleanupOf(i) == tasks[i].pc = "send_final" /\ tasks'[i].pc = "done"

\* The step is a send of task i that raised.
FailedSendOf(i) == tasks'[i].lost # tasks[i].lost

\* C19: a send that raises ends no task.  Every task, whichever of its sends
\* raise, goes on to the "respawned" send, never before its instant, and then
\* to its cleanup, which leaves its boss without a record; and a send of one
\* task that raises changes no other task, nor the map, nor the file.
C19_FailedSendDoesNotAbort ==
    /\ []NoEarlyRespawned
    /\ [](\A i \in TaskIds : tasks[i].pc # "failed")
    /\ [][\A i \in TaskIds :
            /\ CleanupOf(i) =>
                  /\ tasks[i].boss \notin DOMAIN respawn_schedule'
                  /\ tasks[i].boss \notin DOMAIN disk'.entries
            /\ FailedSendOf(i) =>
                  /\ \A j \in TaskIds \ {i} : tasks'[j] = tasks[j]
                  /\ UNCHANGED <<respawn_schedule, disk, sent>>]_vars
    /\ \A i \in 1..MaxTasks :
          (i \in TaskIds)
              ~> (i \in TaskIds /\ tasks[i].pc = "done"
                                /\ Attempted(i, "respawned"))

\* One task lost its pre-alert, sent "respawned" and ended; the task of the
\* other boss lost its "respawned" and ended; neither boss has a record.
C19_Witness ==
    \E i \in TaskIds : \E j \in TaskIds :
        /\ tasks[i].boss # tasks[j].boss
        /\ tasks[i].lost = {"pre-alert"}
        /\ MsgsOf(i, "respawned") # {}
        /\ tasks[i].pc = "done"
        /\ tasks[j].lost = {"respawned"}
        /\ tasks[j].pc = "done"
        /\ DOMAIN respawn_schedule = {}
        /\ DOMAIN disk.entries = {}

\* The step starts the process again.
Restarted == ~life.up /\ life'.up

\* C20: when the process starts on a file that is a whole document, every
\* entry whose text is the written form of an instant is loaded with exactly
\* that instant, every entry whose text cannot be parsed is left out, and
\* the start goes through.
C20_LoadSkipsCorruptEntries ==
    [][(~life.up /\ disk.complete /\ Restart)
          => /\ life'.up
             /\ \A b \in DOMAIN disk.entries :
                   /\ disk.entries[b] = Unparsable
                         => b \notin DOMAIN respawn_schedule'
                   /\ \A t \in Instants :
                         disk.entries[b] = isoformat(t)
                             => /\ b \in DOMAIN respawn_schedule'
                                /\ respawn_schedule'[b] = t
             /\ DOMAIN respawn_schedule' \subseteq DOMAIN disk.entries]_vars

\* The process has started again on a file with one entry that cannot be
\* parsed and one that can, and holds the second with its instant.
C20_Witness ==
    /\ life.crashes > 0
    /\ life.up
    /\ ~ready.ran
    /\ \E b \in DOMAIN disk.entries : disk.entries[b] = Unparsable
    /\ \E c \in DOMAIN respawn_schedule :
          /\ c \in DOMAIN disk.entries
          /\ disk.entries[c] = isoformat(StartTime + MaxTime)
          /\ respawn_schedule[c] = StartTime + MaxTime

\* C21: the process started where respawns.json is missing, and the process
\* started on a respawns.json that is empty (of zero bytes, or an object
\* without entries), runs afterwards with an empty respawn map and no task.
C21_StartsOnMissingOrEmptyFile ==
    [][(~life.up /\ disk \in {Missing, EmptyFile, Dump([b \in {} |-> 0])}
                 /\ Restart)
          => /\ life'.up
             /\ DOMAIN respawn_schedule' = {}
             /\ \A i \in 1..Len(tasks') : ~(tasks'[i].pc \in
                    {"created", "sleep_prealert", "send_prealert",
                     "sleep_final", "send_final"})]_vars

\* C22: every pre-alert message that a task sends at the alert_time it slept
\* until names the minutes that are left until the task's respawn_utc,
\* whenever setprealert is called.
C22_PreAlertNamesMinutesLeft ==
    \A k \in 1..Len(sent) :
        (sent[k].stage = "pre-alert" /\ ~sent[k].late)
            => sent[k].minutes = sent[k].left

====
